---------------------------- MODULE Spec2Model ----------------------------
(***************************************************************************)
(* A model of the two-document RAG pipeline: PDF ingestion into a          *)
(* partition-tagged chunk store (main.py, src/ingestion, src/retrieval)    *)
(* and the router -> retrieval -> synthesis graph run once per question    *)
(* (src/graph), driven by the batch loop of main.run_analysis.             *)
(*                                                                         *)
(* Text is a sequence of one-character strings, so that slicing, lower-    *)
(* casing and substring search are computed and not assumed.  The two      *)
(* external models (embeddings, chat) are opaque: an embedding is a fixed  *)
(* function of the text, a chat completion is an input chosen by \E, and   *)
(* either call may raise.                                                  *)
(***************************************************************************)
EXTENDS Integers, Sequences, FiniteSets, TLC

(***************************** bounds **************************************)
\* settings.top_k is read from the environment; the model tries 1..MaxTopK.
MaxTopK == 2
\* The batch runs the first MaxQuestions entries of QUESTIONS.
MaxQuestions == 2
\* The collection never grows beyond this many stored chunks (re-ingestion
\* appends to the persisted collection).
MaxStoreSize == 5
\* Longest chunk content handed directly to the synthesis stage.
MaxContentLen == 204
\* Documents in a collection that retrieve_chunks is applied to on its own.
MaxStoredDocs == 2

(************************ program constants ********************************)
ExcerptLimit == 200
chunk_size == 1000
chunk_overlap == 200

(****************************** text ***************************************)
Rep(c, n) == [i \in 1..n |-> c]

Min(a, b) == IF a <= b THEN a ELSE b

UpperCase ==
  <<"A","B","C","D","E","F","G","H","I","J","K","L","M",
    "N","O","P","Q","R","S","T","U","V","W","X","Y","Z">>

LowerCase ==
  <<"a","b","c","d","e","f","g","h","i","j","k","l","m",
    "n","o","p","q","r","s","t","u","v","w","x","y","z">>

LowerChar(c) ==
  IF \E i \in 1..26 : UpperCase[i] = c
  THEN LowerCase[CHOOSE i \in 1..26 : UpperCase[i] = c]
  ELSE c

\* str.lower()
lower(s) == [i \in 1..Len(s) |-> LowerChar(s[i])]

\* sub in s
Contains(s, sub) ==
  \E i \in 0..(Len(s) - Len(sub)) : SubSeq(s, i + 1, i + Len(sub)) = sub

Whitespace == {" ", "\n", "\t"}

\* not text.strip()
IsBlank(text) == \A i \in 1..Len(text) : text[i] \in Whitespace

\* dict.get(key, default)
MetaGet(m, key, default) == IF key \in DOMAIN m THEN m[key] ELSE default

\* dict | {key: value}
MetaPut(m, key, value) ==
  [f \in DOMAIN m \cup {key} |-> IF f = key THEN value ELSE m[f]]

(************************ src/ingestion/pdf_loader.py **********************)
MidYearDash == <<"m","i","d","-","y","e","a","r">>
MidYearPlain == <<"m","i","d","y","e","a","r">>

classify_document_type(doc_name) ==
  LET doc_name_lower == lower(doc_name)
  IN IF Contains(doc_name_lower, MidYearDash)
        \/ Contains(doc_name_lower, MidYearPlain)
     THEN "midyear"
     ELSE "forecast"

\* One Document per page whose text is not blank, pages numbered from 1.
extract_text_from_pdf(pdf) ==
  LET doc_name == pdf.stem
      doc_type == classify_document_type(doc_name)
      numbered == [n \in 1..Len(pdf.pages) |-> n]
      kept == SelectSeq(numbered, LAMBDA n : ~IsBlank(pdf.pages[n]))
  IN [i \in 1..Len(kept) |->
        [page_content |-> pdf.pages[kept[i]],
         metadata |-> [source |-> pdf.stem \o <<".","p","d","f">>,
                       document |-> doc_name,
                       doc_type |-> doc_type,
                       page |-> kept[i],
                       total_pages |-> Len(pdf.pages)]]]

\* The page documents of every PDF of the directory, in glob order.
load_all_pdfs(data_dir) ==
  [i \in 1..Len(data_dir.pdfs) |->
     [name |-> data_dir.pdfs[i].stem,
      docs |-> extract_text_from_pdf(data_dir.pdfs[i])]]

(************************* src/ingestion/chunker.py ************************)
SentenceEnd == {".", "?", "!"}

\* Index of the first sentence end followed by whitespace, 0 when none.
FirstBoundary(text) ==
  LET hits == {i \in 1..(Len(text) - 1) :
                 text[i] \in SentenceEnd /\ text[i + 1] \in Whitespace}
  IN IF hits = {} THEN 0
     ELSE CHOOSE i \in hits : \A j \in hits : i <= j

\* What the semantic chunker may return for a text: the text as one chunk,
\* or (the grouping is decided by the opaque embedding distances) the text
\* cut at its first sentence boundary.  "raise" is a failed embedding call.
SemanticOutcomes == {"whole", "split", "raise"}

SemanticChunks(text, outcome) ==
  LET b == FirstBoundary(text)
  IN IF outcome = "split" /\ b > 0
     THEN <<SubSeq(text, 1, b), SubSeq(text, b + 2, Len(text))>>
     ELSE <<text>>

\* RecursiveCharacterTextSplitter(chunk_size, chunk_overlap): a text that
\* fits is one chunk; a longer one is cut into windows of chunk_size that
\* overlap by chunk_overlap.
RECURSIVE RecursiveChunks(_)
RecursiveChunks(text) ==
  IF Len(text) <= chunk_size THEN <<text>>
  ELSE <<SubSeq(text, 1, chunk_size)>>
       \o RecursiveChunks(SubSeq(text, chunk_size - chunk_overlap + 1, Len(text)))

\* enumerate(chunks): chunk_index and total_chunks_in_page are added to the
\* page's metadata.
NumberChunks(doc, texts) ==
  [i \in 1..Len(texts) |->
     [page_content |-> texts[i],
      metadata |-> MetaPut(MetaPut(doc.metadata, "chunk_index", i - 1),
                           "total_chunks_in_page", Len(texts))]]

\* The body of the loop of chunk_documents for one page: the semantic
\* chunker, and the recursive splitter when it raises.
ChunkPage(doc, outcome) ==
  IF outcome = "raise"
  THEN NumberChunks(doc, RecursiveChunks(doc.page_content))
  ELSE NumberChunks(doc, SemanticChunks(doc.page_content, outcome))

\* chunk_documents keeping the recursive splitter for every page after the
\* first one the semantic chunker failed on.
RECURSIVE chunk_documents_staying_recursive(_, _)
chunk_documents_staying_recursive(documents, outcomes) ==
  IF documents = <<>> THEN <<>>
  ELSE IF Head(outcomes) = "raise"
  THEN ChunkPage(Head(documents), "raise")
       \o chunk_documents_staying_recursive(
            Tail(documents), [i \in 1..(Len(outcomes) - 1) |-> "raise"])
  ELSE ChunkPage(Head(documents), Head(outcomes))
       \o chunk_documents_staying_recursive(Tail(documents), Tail(outcomes))

RECURSIVE chunk_documents(_, _)
chunk_documents(documents, outcomes) ==
  IF documents = <<>> THEN <<>>
  ELSE ChunkPage(Head(documents), Head(outcomes))
       \o chunk_documents(Tail(documents), Tail(outcomes))

RECURSIVE PageCount(_)
PageCount(docs_by_name) ==
  IF docs_by_name = <<>> THEN 0
  ELSE Len(Head(docs_by_name).docs) + PageCount(Tail(docs_by_name))

\* outcomes lists the semantic chunker's outcome page by page, over all
\* documents in order.
RECURSIVE chunk_all_documents(_, _)
chunk_all_documents(docs_by_name, outcomes) ==
  IF docs_by_name = <<>> THEN <<>>
  ELSE LET n == Len(Head(docs_by_name).docs)
       IN chunk_documents(Head(docs_by_name).docs, SubSeq(outcomes, 1, n))
          \o chunk_all_documents(Tail(docs_by_name),
                                 SubSeq(outcomes, n + 1, Len(outcomes)))


(************************ the embedding model (opaque) *********************)
\* A one-dimensional stand-in for OpenAIEmbeddings: the vector of a text is
\* decided by its first character, the same function for chunks and queries.
CharVec(c) ==
  CASE c = "a" -> 0 [] c = "b" -> 1 [] c = "c" -> 2 [] c = "d" -> 3
    [] OTHER -> 0

Embed(text) == IF text = <<>> THEN 0 ELSE CharVec(text[1])

\* Chroma's default space: squared L2.
Distance(u, v) == (u - v) * (u - v)

(****************************** src/questions.py ***************************)
QuestionIds == <<"Q1", "Q2", "Q3", "Q4", "Q5">>

QuestionTitle ==
  [Q1 |-> "Forecasted Equity Themes", Q2 |-> "Mid-Year Reality Check",
   Q3 |-> "Stock-Level Comparison", Q4 |-> "Valuation and Risk",
   Q5 |-> "Structured Comparison Table"]

\* The question texts, abbreviated to a word that keeps them distinct.
QuestionText ==
  [Q1 |-> <<"b","y"," ","O","u","t","l","o","o","k">>,
   Q2 |-> <<"c","h","e","c","k"," ","M","i","d","-","Y","e","a","r">>,
   Q3 |-> <<"a","t"," ","l","e","a","s","t"," ","t","w","o">>,
   Q4 |-> <<"d","a","n","g","e","r","s">>,
   Q5 |-> <<"c","o","m","p","a","r","e">>]

QUESTIONS == SubSeq(QuestionIds, 1, Min(MaxQuestions, Len(QuestionIds)))

(**************************** src/schemas/models.py ************************)
DocumentType == {"forecast", "midyear", "both"}

None == "None"

\* An optional value is <<>> (None) or <<v>>.
NoAnswer == <<>>

GraphState(question) ==
  [question |-> question,
   document_type |-> None,
   routing_reasoning |-> "",
   retrieved_chunks |-> <<>>,
   answer |-> NoAnswer]

\* RouterDecision with document_type declared as an unconstrained str.
RouterDecisionUnchecked(raw) == raw # None

\* pydantic validation of RouterDecision: document_type must be a member of
\* the enumeration.
RouterDecisionValid(raw) == raw \in DocumentType

(*************************** the program's state ***************************)
VARIABLES
  chroma_dir_exists,  \* settings.chroma_dir is on disk
  index_built,        \* create_vector_store has completed on chroma_dir
  store,              \* the collection "jpmorgan_outlook": stored chunks
  pc,                 \* where the running process is
  mode,               \* the flag main() was started with
  settings_top_k,     \* settings.top_k of the running process
  qi,                 \* index in QUESTIONS of the question being processed
  state,              \* the GraphState of the run in progress
  results,            \* run_analysis's results, in insertion order
  trace,              \* the stages logged since the current run began
  error,              \* the stage whose exception ended the process
  exit_code,          \* the exit status of the last process
  saved,              \* what save_results wrote, <<>> when nothing
  ingestion           \* ingest_documents's locals: the data directory it
                      \* found, the chunker's outcome page by page, all_chunks

vars ==
  <<chroma_dir_exists, index_built, store, pc, mode, settings_top_k, qi,
    state, results, trace, error, exit_code, saved, ingestion>>

(*********************** src/retrieval/vector_store.py *********************)
\* Insert x after every element whose score is <= x.score.
RECURSIVE InsertByScore(_, _)
InsertByScore(s, x) ==
  IF s = <<>> THEN <<x>>
  ELSE IF Head(s).score <= x.score
       THEN <<Head(s)>> \o InsertByScore(Tail(s), x)
       ELSE <<x>> \o s

\* sorted(results, key=lambda x: x[1]): ascending and stable.
RECURSIVE SortedByScore(_)
SortedByScore(s) ==
  IF s = <<>> THEN <<>>
  ELSE InsertByScore(SortedByScore(SubSeq(s, 1, Len(s) - 1)), s[Len(s)])

\* seq[:n]
Take(s, n) == SubSeq(s, 1, Min(n, Len(s)))

\* filter={"doc_type": {"$eq": doc_type}}; "any" is no filter.
MatchesFilter(entry, filter) ==
  filter = "any" \/ MetaGet(entry.metadata, "doc_type", None) = filter

\* Chroma.similarity_search_with_score(query, k, filter): the k nearest
\* stored chunks among those the filter keeps, nearest first, as
\* (document, distance) pairs.
similarity_search_with_score(vector_store, query, k, filter) ==
  LET kept == SelectSeq(vector_store, LAMBDA e : MatchesFilter(e, filter))
      scored == [i \in 1..Len(kept) |->
                   [doc |-> kept[i],
                    score |-> Distance(Embed(query), kept[i].embedding)]]
  IN Take(SortedByScore(scored), k)

\* SearchResults with the merged lists of BOTH left unsorted.
SearchResultsUnsorted(vector_store, query, document_type, k) ==
  IF document_type = "both"
  THEN Take(similarity_search_with_score(vector_store, query, k, "forecast")
            \o similarity_search_with_score(vector_store, query, k, "midyear"),
            k * 2)
  ELSE IF document_type = "forecast"
  THEN similarity_search_with_score(vector_store, query, k, "forecast")
  ELSE IF document_type = "midyear"
  THEN similarity_search_with_score(vector_store, query, k, "midyear")
  ELSE similarity_search_with_score(vector_store, query, k, "any")

\* SearchResults with the single-partition branches left unfiltered.
SearchResultsUnfiltered(vector_store, query, document_type, k) ==
  IF document_type = "both"
  THEN Take(SortedByScore(
              similarity_search_with_score(vector_store, query, k, "forecast")
              \o similarity_search_with_score(vector_store, query, k, "midyear")),
            k * 2)
  ELSE similarity_search_with_score(vector_store, query, k, "any")

\* SearchResults with the lists of BOTH concatenated midyear first.
SearchResultsMidyearFirst(vector_store, query, document_type, k) ==
  IF document_type = "both"
  THEN LET results_forecast ==
             similarity_search_with_score(vector_store, query, k, "forecast")
           results_midyear ==
             similarity_search_with_score(vector_store, query, k, "midyear")
       IN Take(SortedByScore(results_midyear \o results_forecast), k * 2)
  ELSE IF document_type = "forecast"
  THEN similarity_search_with_score(vector_store, query, k, "forecast")
  ELSE IF document_type = "midyear"
  THEN similarity_search_with_score(vector_store, query, k, "midyear")
  ELSE similarity_search_with_score(vector_store, query, k, "any")

\* The branch of retrieve_chunks on document_type.
SearchResults(vector_store, query, document_type, k) ==
  IF document_type = "both"
  THEN LET results_forecast ==
             similarity_search_with_score(vector_store, query, k, "forecast")
           results_midyear ==
             similarity_search_with_score(vector_store, query, k, "midyear")
       IN Take(SortedByScore(results_forecast \o results_midyear), k * 2)
  ELSE IF document_type = "forecast"
  THEN similarity_search_with_score(vector_store, query, k, "forecast")
  ELSE IF document_type = "midyear"
  THEN similarity_search_with_score(vector_store, query, k, "midyear")
  ELSE similarity_search_with_score(vector_store, query, k, "any")

Unknown == <<"u","n","k","n","o","w","n">>

RetrievedChunk(result) ==
  [content |-> result.doc.page_content,
   document |-> MetaGet(result.doc.metadata, "document", Unknown),
   page |-> MetaGet(result.doc.metadata, "page", 0),
   score |-> result.score]

\* retrieve_chunks falling back to an unfiltered search when the filtered
\* one finds nothing.
retrieve_chunks_with_fallback(vector_store, query, document_type, top_k) ==
  LET k == IF top_k = 0 THEN settings_top_k ELSE top_k
      found == SearchResults(vector_store, query, document_type, k)
      used == IF found = <<>>
              THEN similarity_search_with_score(vector_store, query, k, "any")
              ELSE found
  IN [i \in 1..Len(used) |-> RetrievedChunk(used[i])]

retrieve_chunks(vector_store, query, document_type, top_k) ==
  LET k == IF top_k = 0 THEN settings_top_k ELSE top_k
      found == SearchResults(vector_store, query, document_type, k)
  IN [i \in 1..Len(found) |-> RetrievedChunk(found[i])]

\* Chroma.from_documents on the persisted collection: every chunk is
\* embedded and appended.
create_vector_store(collection, documents) ==
  collection \o
  [i \in 1..Len(documents) |->
     [page_content |-> documents[i].page_content,
      metadata |-> documents[i].metadata,
      embedding |-> Embed(documents[i].page_content)]]

(****************************** src/graph/nodes.py *************************)
\* The stages return either a partial update of the state or raise.
Raised == [raised |-> TRUE, update |-> <<>>]

Returned(update) == [raised |-> FALSE, update |-> update]

\* What the structured chat call may produce: an exception, or a value for
\* document_type (conforming or not) with a justification.
RouterReplies ==
  {[raised |-> TRUE, document_type |-> None, reasoning |-> ""]}
  \cup {[raised |-> FALSE, document_type |-> d, reasoning |-> "because"] :
          d \in DocumentType \cup {"other", None}}

\* structured_llm.invoke raises when the call fails or when its output does
\* not validate as a RouterDecision.
StructuredInvokeRaises(reply) ==
  reply.raised \/ ~RouterDecisionValid(reply.document_type)

router_node(st, reply) ==
  IF StructuredInvokeRaises(reply)
  THEN Raised
  ELSE Returned([document_type |-> reply.document_type,
                 routing_reasoning |-> reply.reasoning])

\* The search embeds the query and queries the collection; either call may
\* raise.
SearchOutcomes == {"ok", "raise"}

\* retrieval_node with the failed search caught and turned into no chunks.
retrieval_node_swallowing(st, vector_store, outcome) ==
  IF outcome = "raise"
  THEN Returned([retrieved_chunks |-> <<>>])
  ELSE Returned([retrieved_chunks |->
                   retrieve_chunks(vector_store, st.question,
                                   st.document_type, settings_top_k)])

retrieval_node(st, vector_store, outcome) ==
  IF outcome = "raise"
  THEN Raised
  ELSE Returned([retrieved_chunks |->
                   retrieve_chunks(vector_store, st.question,
                                   st.document_type, settings_top_k)])

\* What the free-text chat call may produce.
SynthesisReplies ==
  {[raised |-> TRUE, content |-> ""],
   [raised |-> FALSE, content |-> "answer citing the context"],
   [raised |-> FALSE, content |-> "This is not mentioned in the provided documents"]}

Ellipsis == <<".", ".", ".">>

\* Excerpt cutting from the limit itself on.
ExcerptFromLimit(content) ==
  IF Len(content) >= ExcerptLimit
  THEN SubSeq(content, 1, ExcerptLimit) \o Ellipsis
  ELSE content

\* chunk.content[:200] + "..." if len(chunk.content) > 200 else chunk.content
Excerpt(content) ==
  IF Len(content) > ExcerptLimit
  THEN SubSeq(content, 1, ExcerptLimit) \o Ellipsis
  ELSE content

Citation(chunk) ==
  [document |-> chunk.document,
   page |-> chunk.page,
   text |-> Excerpt(chunk.content)]

\* One "[document, Page n]\ncontent\n" part per retrieved chunk, in order.
ContextParts(chunks) ==
  [i \in 1..Len(chunks) |->
     [document |-> chunks[i].document,
      page |-> chunks[i].page,
      content |-> chunks[i].content]]

\* Citations with one citation per distinct (document, page).
CitationsPerPage(chunks) ==
  LET first == SelectSeq([i \in 1..Len(chunks) |-> i],
                         LAMBDA i : ~\E j \in 1..(i - 1) :
                                       /\ chunks[j].document = chunks[i].document
                                       /\ chunks[j].page = chunks[i].page)
  IN [i \in 1..Len(first) |-> Citation(chunks[first[i]])]

Citations(chunks) == [i \in 1..Len(chunks) |-> Citation(chunks[i])]

\* synthesis_node returning the retrieved chunks emptied along with the
\* answer.
synthesis_node_clearing(st, reply) ==
  IF reply.raised
  THEN Raised
  ELSE Returned([answer |->
                   <<[answer |-> reply.content,
                      citations |-> Citations(st.retrieved_chunks)]>>,
                 retrieved_chunks |-> <<>>])

synthesis_node(st, reply) ==
  IF reply.raised
  THEN Raised
  ELSE Returned([answer |->
                   <<[answer |-> reply.content,
                      citations |-> Citations(st.retrieved_chunks)]>>])

(***************************** src/graph/workflow.py ***********************)
END == "END"

EntryPoint == "router"

\* Edge with the router wired straight to the synthesis.
EdgeSkippingRetrieval(node) ==
  CASE node = "router" -> "synthesis"
    [] node = "retrieval" -> "synthesis"
    [] node = "synthesis" -> END

\* add_edge: the one successor of each node.
Edge(node) ==
  CASE node = "router" -> "retrieval"
    [] node = "retrieval" -> "synthesis"
    [] node = "synthesis" -> END

\* The partial update a node returns is merged into the state.
Merge(st, update) ==
  [f \in DOMAIN st |-> IF f \in DOMAIN update THEN update[f] ELSE st[f]]

(************************************ main.py ******************************)
\* No process is running: main() can be started.
Idle == {"shell"}

\* The process has ended, by returning, by sys.exit or by an exception.
Ended == {"exited", "crashed"}

\* The entry run_analysis records for a finished run.
ResultEntry(q_id, st) ==
  [id |-> q_id,
   title |-> QuestionTitle[q_id],
   question |-> QuestionText[q_id],
   routing |-> [document_type |-> st.document_type,
                reasoning |-> st.routing_reasoning],
   answer |-> IF st.answer # NoAnswer THEN st.answer[1].answer ELSE None,
   citations |->
     IF st.answer # NoAnswer
     THEN [i \in 1..Len(st.answer[1].citations) |->
             [document |-> st.answer[1].citations[i].document,
              page |-> st.answer[1].citations[i].page,
              text_excerpt |-> st.answer[1].citations[i].text]]
     ELSE <<>>,
   retrieved_chunks_count |-> Len(st.retrieved_chunks)]

(* The directories the ingestion is tried on. *)
Pa == <<"a", "a">>
Pb == <<"b", "b", "b">>
Pc == Rep("c", ExcerptLimit)
Plong == Rep("a", ExcerptLimit + 1)
Pd == <<"d", "d", ".", " ", "d", "a">>
BlankPage == <<" ", "\n">>

OutlookName == <<"o","u","t","l","o","o","k">>
MidYearName == <<"m","i","d","-","y","e","a","r">>
UpperMidName == <<"M","I","D","Y","E","A","R">>
UnderscoreName == <<"M","i","d","_","Y","e","a","r">>

DataDirs ==
  {[exists |-> FALSE, pdfs |-> <<>>],
   [exists |-> TRUE, pdfs |-> <<[stem |-> OutlookName, pages |-> <<Pb>>]>>],
   [exists |-> TRUE,
    pdfs |-> <<[stem |-> OutlookName, pages |-> <<Pa, BlankPage, Pb>>],
               [stem |-> MidYearName, pages |-> <<Pc, Pd>>]>>],
   [exists |-> TRUE,
    pdfs |-> <<[stem |-> OutlookName, pages |-> <<Pc>>],
               [stem |-> UnderscoreName, pages |-> <<Pb>>]>>],
   [exists |-> TRUE,
    pdfs |-> <<[stem |-> UpperMidName, pages |-> <<Plong>>],
               [stem |-> MidYearName, pages |-> <<Pd>>]>>]}

NoState == GraphState(<<>>)

\* A line of the process's log: what ran, and whether the external call it
\* made failed.
LogEntry(node, failed) == [node |-> node, failed |-> failed]

\* A process that is not (or not yet) ingesting.
NoIngestion ==
  [data_dir |-> [exists |-> FALSE, pdfs |-> <<>>],
   outcomes |-> <<>>,
   all_chunks |-> <<>>]

\* IngestRefused with the count of PDF files checked against one.
IngestRefusedBelowOne(data_dir) ==
  ~data_dir.exists \/ Len(data_dir.pdfs) < 1

\* The two checks of ingest_documents on the data directory: it is missing,
\* or it holds fewer than two PDF files.
IngestRefused(data_dir) ==
  ~data_dir.exists \/ Len(data_dir.pdfs) < 2

\* A process starts with nothing of the previous one but the disk.
FreshProcess(m) ==
  /\ mode' = m
  /\ qi' = 1
  /\ state' = NoState
  /\ results' = <<>>
  /\ saved' = <<>>

Init ==
  /\ chroma_dir_exists = FALSE
  /\ index_built = FALSE
  /\ store = <<>>
  /\ pc = "shell"
  /\ mode = "none"
  /\ settings_top_k \in 1..MaxTopK
  /\ qi = 1
  /\ state = NoState
  /\ results = <<>>
  /\ trace = <<>>
  /\ error = "none"
  /\ exit_code = 0
  /\ saved = <<>>
  /\ ingestion = NoIngestion

\* main() with neither flag: the help text.
MainHelp ==
  /\ pc \in Idle
  /\ FreshProcess("help")
  /\ error' = "none"
  /\ trace' = <<>>
  /\ pc' = "exited"
  /\ exit_code' = 0
  /\ ingestion' = NoIngestion
  /\ UNCHANGED <<chroma_dir_exists, index_built, store, settings_top_k>>

\* main() --ingest: ingest_documents(force_reingest=True), on a data
\* directory, with the semantic chunker's outcome for each page and the
\* outcome of the embedding call of create_vector_store.
MainIngest ==
  /\ pc \in Idle
  /\ FreshProcess("ingest")
  /\ UNCHANGED settings_top_k
  /\ \E data_dir \in DataDirs :
       IF IngestRefused(data_dir)
       THEN /\ pc' = "exited"
            /\ ingestion' = [NoIngestion EXCEPT !.data_dir = data_dir]
            /\ exit_code' = 1
            /\ error' = "none"
            /\ trace' = <<>>
            /\ UNCHANGED <<chroma_dir_exists, index_built, store>>
       ELSE LET docs_by_name == load_all_pdfs(data_dir)
            IN \E outcomes \in [1..PageCount(docs_by_name) -> SemanticOutcomes] :
               \E embedding \in {"ok", "raise"} :
                 LET all_chunks == chunk_all_documents(docs_by_name, outcomes)
                 IN /\ Len(store) + Len(all_chunks) <= MaxStoreSize
                    /\ ingestion' = [data_dir |-> data_dir,
                                     outcomes |-> outcomes,
                                     all_chunks |-> all_chunks]
                    /\ trace' = <<LogEntry("load_all_pdfs", FALSE),
                                  LogEntry("chunk_all_documents", FALSE),
                                  LogEntry("create_vector_store",
                                           embedding = "raise")>>
                    /\ chroma_dir_exists' = TRUE
                    /\ IF embedding = "raise"
                       THEN /\ pc' = "crashed"
                            /\ error' = "create_vector_store"
                            /\ exit_code' = 1
                            /\ UNCHANGED <<index_built, store>>
                       ELSE /\ pc' = "exited"
                            /\ error' = "none"
                            /\ exit_code' = 0
                            /\ index_built' = TRUE
                            /\ store' = create_vector_store(store, all_chunks)

\* main() --analyze, up to the loop of run_analysis: load_vector_store opens
\* (and creates, when absent) the persisted collection; nothing checks that
\* it was ever built.
MainAnalyze ==
  /\ pc \in Idle
  /\ FreshProcess("analyze")
  /\ error' = "none"
  /\ UNCHANGED settings_top_k
  /\ chroma_dir_exists' = TRUE
  /\ trace' = <<>>
  /\ pc' = "loop"
  /\ exit_code' = 0
  /\ ingestion' = NoIngestion
  /\ UNCHANGED <<index_built, store>>

\* The head of the loop and run_query up to graph.invoke: a fresh state
\* seeded with the question enters the graph at its entry point.
RunQuery ==
  /\ pc = "loop"
  /\ qi <= Len(QUESTIONS)
  /\ state' = GraphState(QuestionText[QUESTIONS[qi]])
  /\ trace' = <<>>
  /\ pc' = EntryPoint
  /\ UNCHANGED <<chroma_dir_exists, index_built, store, mode, settings_top_k,
                 qi, results, error, exit_code, saved, ingestion>>

\* A node of the graph has run: its update is merged and the graph follows
\* the node's edge, or its exception leaves graph.invoke, run_query,
\* run_analysis and main, none of which catches it.  failed tells whether
\* the external call the node made raised.
Step(node, failed, result) ==
  /\ trace' = Append(trace, LogEntry(node, failed))
  /\ IF result.raised
     THEN /\ pc' = "crashed"
          /\ error' = node
          /\ exit_code' = 1
          /\ UNCHANGED state
     ELSE /\ pc' = Edge(node)
          /\ state' = Merge(state, result.update)
          /\ UNCHANGED <<error, exit_code>>
  /\ UNCHANGED <<chroma_dir_exists, index_built, store, mode, settings_top_k,
                 qi, results, saved, ingestion>>

RouterNode ==
  /\ pc = "router"
  /\ \E reply \in RouterReplies : Step("router", StructuredInvokeRaises(reply), router_node(state, reply))

RetrievalNode ==
  /\ pc = "retrieval"
  /\ \E outcome \in SearchOutcomes :
       Step("retrieval", outcome = "raise",
            retrieval_node(state, store, outcome))

SynthesisNode ==
  /\ pc = "synthesis"
  /\ \E reply \in SynthesisReplies :
       Step("synthesis", reply.raised, synthesis_node(state, reply))

\* graph.invoke returned: run_query returns the final state and the loop
\* body records the result.
RecordResult ==
  /\ pc = END
  /\ results' = Append(results, ResultEntry(QUESTIONS[qi], state))
  /\ qi' = qi + 1
  /\ pc' = "loop"
  /\ UNCHANGED <<chroma_dir_exists, index_built, store, mode, settings_top_k,
                 state, trace, error, exit_code, saved, ingestion>>

\* The loop is over: save_results writes the results.
SaveResults ==
  /\ pc = "loop"
  /\ qi > Len(QUESTIONS)
  /\ saved' = <<results>>
  /\ pc' = "exited"
  /\ UNCHANGED <<chroma_dir_exists, index_built, store, mode, settings_top_k,
                 qi, state, results, trace, error, exit_code, ingestion>>

\* The ended process is gone: its memory, its log and its exit status go
\* with it and only the disk remains.
ProcessExit ==
  /\ pc \in Ended
  /\ FreshProcess("none")
  /\ error' = "none"
  /\ pc' = "shell"
  /\ trace' = <<>>
  /\ exit_code' = 0
  /\ ingestion' = NoIngestion
  /\ UNCHANGED <<chroma_dir_exists, index_built, store, settings_top_k>>

Next ==
  \/ ProcessExit
  \/ MainHelp
  \/ MainIngest
  \/ MainAnalyze
  \/ RunQuery
  \/ RouterNode
  \/ RetrievalNode
  \/ SynthesisNode
  \/ RecordResult
  \/ SaveResults

Spec == Init /\ [][Next]_vars

(***************************************************************************)
(* The synthesis stage on its own: the state enters the stage holding one  *)
(* or two retrieved chunks whose contents have every length up to          *)
(* MaxContentLen, and the stage runs.                                      *)
(***************************************************************************)
Alphabet == <<"w", "x", "y", "z">>

ContentOfLength(n) == [i \in 1..n |-> Alphabet[(i % 4) + 1]]

ChunkOfLength(n) ==
  [content |-> ContentOfLength(n), document |-> OutlookName,
   page |-> (n % 3) + 1, score |-> n]

SynthesisInputs ==
  {<<ChunkOfLength(n)>> : n \in 0..MaxContentLen}
  \cup {<<ChunkOfLength(n), ChunkOfLength(n + 1)>> : n \in 0..(MaxContentLen - 1)}

InitSynthesis ==
  /\ chroma_dir_exists = TRUE
  /\ index_built = TRUE
  /\ store = <<>>
  /\ pc = "synthesis"
  /\ mode = "analyze"
  /\ settings_top_k = 1
  /\ qi = 1
  /\ \E chunks \in SynthesisInputs :
       state = [GraphState(QuestionText[QUESTIONS[1]]) EXCEPT
                  !.document_type = "forecast",
                  !.routing_reasoning = "because",
                  !.retrieved_chunks = chunks]
  /\ results = <<>>
  /\ trace = <<LogEntry("router", FALSE), LogEntry("retrieval", FALSE)>>
  /\ error = "none"
  /\ exit_code = 0
  /\ saved = <<>>
  /\ ingestion = NoIngestion

NextSynthesis == SynthesisNode

SpecSynthesis == InitSynthesis /\ [][NextSynthesis]_vars

(********* retrieve_chunks over any collection the store can hold *********)
\* A persisted collection need not come from this program's ingestion: the
\* metadata of a stored document is a dict that may lack "page" or
\* "document".
StoredMetadata ==
  LET full == {[document |-> n, doc_type |-> classify_document_type(n),
                page |-> p] :
                 n \in {OutlookName, MidYearName}, p \in 1..2}
      no_page == {[document |-> n, doc_type |-> classify_document_type(n)] :
                    n \in {OutlookName, MidYearName}}
      no_document == {[doc_type |-> d, page |-> 1] :
                        d \in {"forecast", "midyear"}}
  IN full \cup no_page \cup no_document

StoredDocuments ==
  {[page_content |-> c, metadata |-> m, embedding |-> Embed(c)] :
     c \in {Pa, Pb}, m \in StoredMetadata}

Collections ==
  UNION {[1..n -> StoredDocuments] : n \in 1..MaxStoredDocs}

InitRetrieval ==
  /\ chroma_dir_exists = TRUE
  /\ index_built = TRUE
  /\ store \in Collections
  /\ pc = "retrieval"
  /\ mode = "analyze"
  /\ settings_top_k \in 1..MaxTopK
  /\ qi = 1
  /\ \E d \in DocumentType :
       state = [GraphState(QuestionText[QUESTIONS[1]]) EXCEPT
                  !.document_type = d,
                  !.routing_reasoning = "because"]
  /\ results = <<>>
  /\ trace = <<LogEntry("router", FALSE)>>
  /\ error = "none"
  /\ exit_code = 0
  /\ saved = <<>>
  /\ ingestion = NoIngestion

NextRetrieval == RetrievalNode \/ SynthesisNode

SpecRetrieval == InitRetrieval /\ [][NextRetrieval]_vars

(******************************* the claims ********************************)
StageOrder == <<"router", "retrieval", "synthesis">>

Stages(log) == [i \in 1..Len(log) |-> log[i].node]

IsPrefix(s, t) == Len(s) <= Len(t) /\ s = SubSeq(t, 1, Len(s))

Analyzing == mode = "analyze"

\* The router (the retrieval, the synthesis) of the current run has run and
\* its external call did not fail.
RouterCallOk == Analyzing /\ Len(trace) >= 1 /\ ~trace[1].failed
RetrievalCallOk == RouterCallOk /\ Len(trace) >= 2 /\ ~trace[2].failed
SynthesisCallOk == RetrievalCallOk /\ Len(trace) >= 3 /\ ~trace[3].failed

InPartition(collection, doc_type) ==
  {i \in 1..Len(collection) : collection[i].metadata.doc_type = doc_type}

\* C1: in every run the stages run once each in the order router,
\* retrieval, synthesis, end: what has run so far is always a prefix of that
\* order, each stage is entered exactly when its predecessors have run, and
\* the end is reached only after all three.
C1_LinearStageOrder ==
  Analyzing =>
    /\ IsPrefix(Stages(trace), StageOrder)
    /\ pc = "router" => Len(trace) = 0
    /\ pc = "retrieval" => Len(trace) = 1
    /\ pc = "synthesis" => Len(trace) = 2
    /\ pc = END => Len(trace) = 3

C1_Witness ==
  /\ Analyzing
  /\ pc = END
  /\ Stages(trace) = StageOrder
  /\ qi = 2

\* C2: when the external call of a stage fails, that stage is the last one
\* of the run, the process ends with the error of that stage, the state
\* carries no answer, and no result is recorded or saved for the question.
C2_FailureAbortsRun ==
  Analyzing =>
    \A i \in 1..Len(trace) :
      trace[i].failed =>
        /\ i = Len(trace)
        /\ pc = "crashed"
        /\ error = trace[i].node
        /\ exit_code = 1
        /\ state.answer = NoAnswer
        /\ \A j \in 1..Len(results) : results[j].id # QUESTIONS[qi]
        /\ saved = <<>>

C2_Witness ==
  /\ Analyzing
  /\ pc = "crashed"
  /\ error = "retrieval"
  /\ trace[2].failed
  /\ state.document_type = "both"
  /\ store # <<>>

\* C3: when a batch ends, by a fatal error in one question's run or
\* otherwise, every other question of the batch has a recorded result.
C3_BatchIsolation ==
  (Analyzing /\ pc \in Ended) =>
    \A i \in 1..Len(QUESTIONS) :
      (pc = "crashed" /\ i = qi)
      \/ \E j \in 1..Len(results) : results[j].id = QUESTIONS[i]

\* C4: after a retrieval with selection BOTH, the chunks number
\* min(2k, forecast results + midyear results), at most 2k, and their
\* distances ascend.
C4_BothMergeBound ==
  (RetrievalCallOk /\ state.document_type = "both") =>
    LET k == settings_top_k
        chunks == state.retrieved_chunks
        nf == Min(k, Cardinality(InPartition(store, "forecast")))
        nm == Min(k, Cardinality(InPartition(store, "midyear")))
    IN /\ pc # "crashed" \/ error # "retrieval"
       /\ Len(chunks) <= 2 * k
       /\ Len(chunks) = Min(2 * k, nf + nm)
       /\ \A i, j \in 1..Len(chunks) :
            i < j => chunks[i].score <= chunks[j].score

\* A merge that reordered the concatenation: a midyear chunk ahead of a
\* forecast one, with a partition cut to k.
C4_Witness ==
  /\ RetrievalCallOk
  /\ state.document_type = "both"
  /\ Cardinality(InPartition(store, "forecast")) > settings_top_k
  /\ \E i, j \in 1..Len(state.retrieved_chunks) :
       /\ i < j
       /\ classify_document_type(state.retrieved_chunks[i].document) = "midyear"
       /\ classify_document_type(state.retrieved_chunks[j].document) = "forecast"
       /\ state.retrieved_chunks[i].score < state.retrieved_chunks[j].score

\* C5: after a retrieval with selection FORECAST or MIDYEAR there are at
\* most k chunks, and each is a stored chunk of the selected partition whose
\* document is one of that partition.
C5_PartitionPurity ==
  (RetrievalCallOk /\ state.document_type \in {"forecast", "midyear"}) =>
    LET chunks == state.retrieved_chunks
    IN /\ Len(chunks) <= settings_top_k
       /\ \A i \in 1..Len(chunks) :
            /\ classify_document_type(chunks[i].document) = state.document_type
            /\ \E e \in InPartition(store, state.document_type) :
                 /\ store[e].page_content = chunks[i].content
                 /\ store[e].metadata.document = chunks[i].document
                 /\ store[e].metadata.page = chunks[i].page

\* The other partition holds a chunk nearer to the query than one returned.
C5_Witness ==
  /\ RetrievalCallOk
  /\ state.document_type = "forecast"
  /\ Len(state.retrieved_chunks) = settings_top_k
  /\ \E e \in InPartition(store, "midyear") :
       Distance(Embed(state.question), store[e].embedding)
         < state.retrieved_chunks[Len(state.retrieved_chunks)].score

\* C6: whenever a run has an answer, its citations are as many as the
\* retrieved chunks and citation i has the document and page of chunk i;
\* the recorded result lists the same citations and counts the same chunks.
C6_CitationCorrespondence ==
  /\ state.answer # NoAnswer =>
       LET citations == state.answer[1].citations
           chunks == state.retrieved_chunks
       IN /\ Len(citations) = Len(chunks)
          /\ \A i \in 1..Len(chunks) :
               /\ citations[i].document = chunks[i].document
               /\ citations[i].page = chunks[i].page
  /\ \A j \in 1..Len(results) :
       Len(results[j].citations) = results[j].retrieved_chunks_count
  /\ (Analyzing /\ pc = "loop" /\ qi > 1) =>
       LET recorded == results[qi - 1].citations
           chunks == state.retrieved_chunks
       IN /\ Len(recorded) = Len(chunks)
          /\ \A i \in 1..Len(chunks) :
               /\ recorded[i].document = chunks[i].document
               /\ recorded[i].page = chunks[i].page

\* Two chunks of one page among the cited ones, and an answer that cites
\* nothing.
C6_Witness ==
  /\ Analyzing
  /\ pc = "loop"
  /\ qi > 1
  /\ results[qi - 1].answer = "This is not mentioned in the provided documents"
  /\ \E i, j \in 1..Len(state.retrieved_chunks) :
       /\ i < j
       /\ state.retrieved_chunks[i].document = state.retrieved_chunks[j].document
       /\ state.retrieved_chunks[i].page = state.retrieved_chunks[j].page
  /\ \E i, j \in 1..Len(state.retrieved_chunks) :
       state.retrieved_chunks[i].document # state.retrieved_chunks[j].document

\* C7: the excerpt of a citation is the chunk's content when the content
\* has at most 200 characters, and otherwise its first 200 characters
\* followed by "...".
C7_ExcerptLaw ==
  state.answer # NoAnswer =>
    \A i \in 1..Len(state.retrieved_chunks) :
      LET content == state.retrieved_chunks[i].content
          text == state.answer[1].citations[i].text
      IN IF Len(content) <= 200
         THEN text = content
         ELSE /\ Len(text) = 203
              /\ \A n \in 1..200 : text[n] = content[n]
              /\ \A n \in 201..203 : text[n] = "."

\* A content of exactly 200 characters beside one of 201.
C7_Witness ==
  /\ state.answer # NoAnswer
  /\ Len(state.retrieved_chunks) = 2
  /\ Len(state.retrieved_chunks[1].content) = 200
  /\ Len(state.answer[1].citations[1].text) = 200
  /\ Len(state.retrieved_chunks[2].content) = 201
  /\ Len(state.answer[1].citations[2].text) = 203

\* C8: once the router has completed, the selection in the state is one of
\* forecast, midyear, both; the retrieval and the stages after it never see
\* another value.
C8_RouterTotality ==
  Analyzing =>
    /\ RouterCallOk => state.document_type \in {"forecast", "midyear", "both"}
    /\ pc \in {"retrieval", "synthesis", END} =>
         state.document_type \in {"forecast", "midyear", "both"}
    /\ \A i \in 1..Len(trace) :
         trace[i].node = "retrieval" =>
           state.document_type \in {"forecast", "midyear", "both"}

C8_Witness ==
  /\ Analyzing
  /\ pc = "retrieval"
  /\ state.document_type = "midyear"
  /\ state.routing_reasoning = "because"

\* C9: a search never completes on a collection that was never built.
C9_StoreUnavailable ==
  RetrievalCallOk => index_built

\* C10: on a built store without midyear chunks, a MIDYEAR run whose search
\* call does not fail retrieves the empty sequence without failing, and when
\* the synthesis call does not fail either the run ends with an answer whose
\* citation list is empty.
C10_EmptyPartition ==
  (/\ RetrievalCallOk
   /\ index_built
   /\ state.document_type = "midyear"
   /\ InPartition(store, "midyear") = {}) =>
    /\ pc # "crashed" \/ error = "synthesis"
    /\ state.retrieved_chunks = <<>>
    /\ SynthesisCallOk =>
         /\ pc \in {END, "loop", "exited"}
         /\ state.answer # NoAnswer
         /\ state.answer[1].citations = <<>>

C10_Witness ==
  /\ RetrievalCallOk
  /\ index_built
  /\ InPartition(store, "forecast") # {}
  /\ InPartition(store, "midyear") = {}
  /\ state.document_type = "midyear"
  /\ pc = END
  /\ state.retrieved_chunks = <<>>
  /\ state.answer # NoAnswer
  /\ state.answer[1].citations = <<>>

Ingesting == mode = "ingest"

\* The data directory the ingesting process found is missing or holds fewer
\* than two PDF files.
UnfitDataDir ==
  ~ingestion.data_dir.exists \/ Len(ingestion.data_dir.pdfs) < 2

\* C11: an ingestion that finds the data directory missing or with fewer
\* than two PDF files has ended with a non-zero exit status without loading,
\* chunking or creating the index, and it left the persisted collection as
\* it was.
C11_IngestRefusedEarly ==
  /\ [](Ingesting /\ UnfitDataDir =>
          /\ pc = "exited"
          /\ exit_code # 0
          /\ \A i \in 1..Len(trace) :
               trace[i].node \notin {"load_all_pdfs", "chunk_all_documents",
                                     "create_vector_store"}
          /\ ingestion.all_chunks = <<>>)
  /\ [][(Ingesting /\ UnfitDataDir)' =>
          /\ store' = store
          /\ index_built' = index_built
          /\ chroma_dir_exists' = chroma_dir_exists]_vars

\* One PDF file only, found by an ingestion that follows a successful one.
C11_Witness ==
  /\ Ingesting
  /\ ingestion.data_dir.exists
  /\ Len(ingestion.data_dir.pdfs) = 1
  /\ pc = "exited"
  /\ exit_code = 1
  /\ index_built
  /\ store # <<>>

\* The chunks of a list that come from documents of one partition, in the
\* order of the list.
OfPartition(chunks, doc_type) ==
  SelectSeq(chunks, LAMBDA c : classify_document_type(c.document) = doc_type)

\* What the store returns for one partition, as chunks.
StoreReturned(doc_type) ==
  LET found == similarity_search_with_score(store, state.question,
                                            settings_top_k, doc_type)
  IN [i \in 1..Len(found) |-> RetrievedChunk(found[i])]

\* C12: after a retrieval with selection BOTH, among chunks of equal
\* distance no midyear chunk precedes a forecast chunk, and the chunks of
\* each partition are exactly the ones the store returned for it, in the
\* order it returned them: the cut to 2k comes after the ordering and drops
\* none of them.
C12_StableMerge ==
  (RetrievalCallOk /\ state.document_type = "both") =>
    LET chunks == state.retrieved_chunks
    IN /\ \A i, j \in 1..Len(chunks) :
            (i < j /\ chunks[i].score = chunks[j].score) =>
              ~(/\ classify_document_type(chunks[i].document) = "midyear"
                /\ classify_document_type(chunks[j].document) = "forecast")
       /\ OfPartition(chunks, "forecast") = StoreReturned("forecast")
       /\ OfPartition(chunks, "midyear") = StoreReturned("midyear")
       /\ Len(chunks) =
            Len(StoreReturned("forecast")) + Len(StoreReturned("midyear"))

\* A forecast chunk and a midyear chunk at the same distance, and two
\* chunks of one partition at the same distance.
C12_Witness ==
  /\ RetrievalCallOk
  /\ state.document_type = "both"
  /\ \E i, j \in 1..Len(state.retrieved_chunks) :
       /\ i < j
       /\ state.retrieved_chunks[i].score = state.retrieved_chunks[j].score
       /\ classify_document_type(state.retrieved_chunks[i].document) = "forecast"
       /\ classify_document_type(state.retrieved_chunks[j].document) = "midyear"
  /\ \E i, j \in 1..Len(state.retrieved_chunks) :
       /\ i < j
       /\ state.retrieved_chunks[i].score = state.retrieved_chunks[j].score
       /\ state.retrieved_chunks[i].document = state.retrieved_chunks[j].document
       /\ state.retrieved_chunks[i] # state.retrieved_chunks[j]

\* The fields of the pipeline state each stage may write.
Writes(node) ==
  CASE node = "router" -> {"document_type", "routing_reasoning"}
    [] node = "retrieval" -> {"retrieved_chunks"}
    [] node = "synthesis" -> {"answer"}

\* The state keeps its fields, and the value of every field outside
\* fields, over the step.
OnlyChanges(fields) ==
  /\ DOMAIN state' = DOMAIN state
  /\ \A f \in DOMAIN state \ fields : state'[f] = state[f]

\* C13: a step taken at a stage changes no field of the pipeline state
\* other than that stage's own (the router's selection and reasoning, the
\* retrieval's retrieved_chunks, the synthesis's answer), and from the start
\* of a run to its end the state's question is the question run_query was
\* called with.
C13_StageFrame ==
  /\ [][\A node \in {"router", "retrieval", "synthesis"} :
          pc = node => OnlyChanges(Writes(node))]_vars
  /\ []((Analyzing /\ pc \in {"router", "retrieval", "synthesis", END}) =>
          state.question = QuestionText[QUESTIONS[qi]])

\* The second question's run at its end, every stage having written.
C13_Witness ==
  /\ Analyzing
  /\ pc = END
  /\ qi = 2
  /\ state.question = QuestionText[QUESTIONS[2]]
  /\ state.document_type = "both"
  /\ state.routing_reasoning # ""
  /\ state.retrieved_chunks # <<>>
  /\ state.answer # NoAnswer

\* C14: every retrieved chunk, and every citation derived from one, has a
\* page number that is an integer of at least 1, whatever metadata the
\* stored documents carry.
C14_PagePositive ==
  /\ \A i \in 1..Len(state.retrieved_chunks) :
       /\ state.retrieved_chunks[i].page \in Int
       /\ state.retrieved_chunks[i].page >= 1
  /\ state.answer # NoAnswer =>
       \A i \in 1..Len(state.answer[1].citations) :
         /\ state.answer[1].citations[i].page \in Int
         /\ state.answer[1].citations[i].page >= 1

\* The page documents of all PDFs, in the order they are chunked.
RECURSIVE AllPages(_)
AllPages(docs_by_name) ==
  IF docs_by_name = <<>> THEN <<>>
  ELSE Head(docs_by_name).docs \o AllPages(Tail(docs_by_name))

\* The chunks of a list that come from one page, in the order of the list.
ChunksOfPage(chunks, page) ==
  SelectSeq(chunks, LAMBDA c :
              /\ c.metadata.document = page.metadata.document
              /\ c.metadata.page = page.metadata.page)

\* C15: in the chunks of an ingestion, the chunks of each page are the
\* recursive splitter's when the semantic chunker failed on that page and
\* the semantic chunker's otherwise, whatever happened on other pages; they
\* appear once, numbered chunk_index 0..n-1 with total_chunks_in_page n, and
\* every chunk belongs to a loaded page.
C15_PerPageFallback ==
  (Ingesting /\ ~UnfitDataDir) =>
    LET pages == AllPages(load_all_pdfs(ingestion.data_dir))
        chunks == ingestion.all_chunks
    IN /\ Len(ingestion.outcomes) = Len(pages)
       /\ \A i \in 1..Len(pages) :
            LET texts == IF ingestion.outcomes[i] = "raise"
                         THEN RecursiveChunks(pages[i].page_content)
                         ELSE SemanticChunks(pages[i].page_content,
                                             ingestion.outcomes[i])
                mine == ChunksOfPage(chunks, pages[i])
                n == Len(mine)
            IN /\ n = Len(texts)
               /\ n >= 1
               /\ \A j \in 1..n :
                    /\ mine[j].page_content = texts[j]
                    /\ mine[j].metadata.chunk_index = j - 1
                    /\ mine[j].metadata.total_chunks_in_page = n
       /\ \A c \in 1..Len(chunks) :
            \E i \in 1..Len(pages) :
              /\ chunks[c].metadata.document = pages[i].metadata.document
              /\ chunks[c].metadata.page = pages[i].metadata.page

\* The semantic chunker failed on a page and cut a later page of the same
\* PDF in two.
C15_Witness ==
  /\ Ingesting
  /\ ~UnfitDataDir
  /\ LET pages == AllPages(load_all_pdfs(ingestion.data_dir))
     IN \E i, j \in 1..Len(pages) :
          /\ i < j
          /\ pages[i].metadata.document = pages[j].metadata.document
          /\ ingestion.outcomes[i] = "raise"
          /\ ingestion.outcomes[j] = "split"
          /\ Len(ChunksOfPage(ingestion.all_chunks, pages[i])) = 1
          /\ Len(ChunksOfPage(ingestion.all_chunks, pages[j])) = 2

=============================================================================
